---- MODULE Spec2Model ----
(***************************************************************************)
(* Model of the execution agent in src/main.py: the ExecutionTracker       *)
(* ledger, the CodeExecutor runner, the AgentService event handler and     *)
(* dispatch coroutine, and the run/shutdown sequence of the service.       *)
(*                                                                         *)
(* The agent is one asyncio event loop.  A coroutine runs without          *)
(* interruption from one await to the next, so every action below is the   *)
(* code between two suspension points.  A backend write is issued by the   *)
(* action that reaches the await and takes effect (or raises) in the       *)
(* action that resumes the coroutine; writes of different coroutines that  *)
(* are pending at the same time complete in any order.                     *)
(***************************************************************************)
EXTENDS Integers, Sequences, FiniteSets, TLC

\* Bounds of the model.
NumIds == 2
MaxEvents == 2
MaxCalls == 4

Ids == 1..NumIds

\* Computer.status values written by the agent.
Offline == 0
Running == 1
Idle == 2
StatusValues == {Offline, Running, Idle}

\* An Optional[int] timeout: None, the default of execute_code that
\* process_execution uses, or a number of seconds.
None == [some |-> FALSE, value |-> 0]
Some(seconds) == [some |-> TRUE, value |-> seconds]

\* A text is a sequence of pieces; NoText marks a variable not assigned yet.
NoText == <<"<unassigned>">>
StartedText == <<"Execution started...\n">>

(***************************************************************************)
(* ExecutionTracker                                                        *)
(***************************************************************************)
\* is_executed with the membership test lost.
is_executed_never(executed, execution_id) == FALSE

is_executed(executed, execution_id) == execution_id \in executed

\* mark_executed that does not record the id.
mark_executed_forgets(executed, execution_id) == executed

mark_executed(executed, execution_id) == executed \cup {execution_id}

\* add_active that tests whether the id is new instead of whether the set
\* is empty.
add_active_new_is_first(active, execution_id) ==
    [active |-> active \cup {execution_id},
     result |-> execution_id \notin active]

\* add_active that tests the emptiness after the insertion.
add_active_tests_after(active, execution_id) ==
    [active |-> active \cup {execution_id},
     result |-> Cardinality(active \cup {execution_id}) = 0]

add_active(active, execution_id) ==
    [active |-> active \cup {execution_id},
     result |-> Cardinality(active) = 0]

\* remove_active that tests the emptiness before the removal.
remove_active_tests_before(active, execution_id) ==
    LET after == IF execution_id \in active
                 THEN active \ {execution_id}
                 ELSE active
    IN  [active |-> after, result |-> Cardinality(active) = 0]

remove_active(active, execution_id) ==
    LET after == IF execution_id \in active
                 THEN active \ {execution_id}
                 ELSE active
    IN  [active |-> after, result |-> Cardinality(after) = 0]

count_active(active) == Cardinality(active)

(***************************************************************************)
(* CodeExecutor                                                            *)
(*                                                                         *)
(* A child is what the interpreter process does with the code: it exits    *)
(* with some stdout, stderr and return code ("exit"), it does not finish   *)
(* ("hang"), or creating or reading it raises an exception ("raise").      *)
(***************************************************************************)
Children ==
    { [kind |-> "exit",  out |-> <<"hello\n">>, err |-> <<>>,         rc |-> 0],
      [kind |-> "exit",  out |-> <<>>,          err |-> <<"boom\n">>, rc |-> 1],
      [kind |-> "raise", out |-> <<>>,          err |-> <<"oserror">>, rc |-> 0] }

\* A file name that does not contain the execution id.
temp_filename_without_id(execution_id) == <<"exec_", ".py">>

\* The temporary file of an invocation.
temp_filename(execution_id) == <<"exec_", ToString(execution_id), ".py">>

FileNames == {temp_filename(i) : i \in Ids}

\* Output that sets stderr off by the separator also after an empty stdout.
Output_always_separates(child) ==
    LET o2 == IF child.err # <<>>
              THEN child.out \o <<"\n\n">> \o <<"Errors:\n">> \o child.err
              ELSE child.out
    IN  IF child.rc # 0
        THEN o2 \o <<"\n\nProcess exited with code ", ToString(child.rc)>>
        ELSE o2

\* The text _run_in_process returns for a child that exited.
Output(child) ==
    LET stdout_str == child.out
        stderr_str == child.err
        o1 == stdout_str
        o2 == IF stderr_str # <<>>
              THEN (IF o1 # <<>> THEN o1 \o <<"\n\n">> ELSE o1)
                   \o <<"Errors:\n">> \o stderr_str
              ELSE o1
    IN  IF child.rc # 0
        THEN o2 \o <<"\n\nProcess exited with code ", ToString(child.rc)>>
        ELSE o2

\* The child finishes inside communicate(timeout): always when it exits and
\* never when it hangs.
Finishes(child) == child.kind # "hang"

_run_in_process(child, timeout) ==
    IF child.kind = "raise"
    THEN <<"Error executing code: ">> \o child.err
    ELSE IF ~Finishes(child) /\ timeout # None
    THEN <<"Execution timed out after ", ToString(timeout.value), " seconds.">>
    ELSE Output(child)

execute_code(child, timeout) == _run_in_process(child, timeout)

(***************************************************************************)
(* State                                                                   *)
(***************************************************************************)
VARIABLES
    executed_tasks,      \* ExecutionTracker.executed_tasks
    active_executions,   \* ExecutionTracker.active_executions
    task,                \* position of the process_execution task of each id
    logs,                \* local variable logs of each process_execution
    computer_status,     \* status field of the computer record in the backend
    records,             \* execution records in the backend
    main,                \* position of main(): initialize, then run
    unsubscribe,         \* 'unsubscribe' in locals() of run
    subscribed,          \* the realtime subscription delivers events
    \* History of what the agent did, read by the properties only.
    events,              \* number of events delivered to handle_execution
    dispatches,          \* number of create_task(process_execution) per id
    completed_seen,      \* ids with a handled event whose completed was true
    writes,              \* execution-record writes issued per id, in order
    batch,               \* status writes issued since active last became non-empty
    offline_attempts,    \* Offline writes issued by run
    unsubscribe_attempts,\* unsubscribe() calls made by run
    offline_written,     \* the Offline write of run has succeeded
    status_write_failed, \* some status write of a dispatch has raised
    last,                \* what the last step was, as the log line printed
    temp_files,          \* per temporary file, the invocations of
                         \* _run_in_process of the agent that are using it
    invocation,          \* one invocation of _run_in_process, step by step
    call                 \* the calls made on an ExecutionTracker on its own

vars == <<executed_tasks, active_executions, task, logs, computer_status,
          records, main, unsubscribe, subscribed, events, dispatches,
          completed_seen, writes, batch, offline_attempts,
          unsubscribe_attempts, offline_written, status_write_failed,
          last, temp_files, invocation, call>>

\* The variables of the runner and the ledger taken on their own.
partVars == <<invocation, call>>

trackerVars == <<executed_tasks, active_executions>>
mainVars == <<main, unsubscribe, subscribed, offline_attempts,
              unsubscribe_attempts, offline_written>>
handlerHist == <<events, dispatches, completed_seen, status_write_failed>>

TaskStates == {"none", "scheduled", "status_running", "started_write",
               "execute_code", "final_write", "status_idle", "done",
               "failed", "cancelled"}
Ended == {"done", "failed", "cancelled"}
Live == TaskStates \ (Ended \cup {"none"})

\* No log line of interest was printed by the last step.
Quiet == [line |-> "", id |-> 0, status |-> 0]

\* The history of one batch: the dispatches from the moment active becomes
\* non-empty to the moment it is empty again.  adds counts its add_active
\* calls, opened_by and closed_by are the ids whose call made the set
\* non-empty and empty, running and idle count the status writes issued,
\* running_by and idle_by are the ids that issued them.
NoBatch == [adds |-> 0, opened_by |-> 0, closed_by |-> 0,
            running |-> 0, running_by |-> 0, idle |-> 0, idle_by |-> 0]

\* No invocation of the runner is being followed.
NoInvocation ==
    [pc |-> "idle", execution_id |-> 0, timeout |-> None,
     child |-> [kind |-> "exit", out |-> <<>>, err |-> <<>>, rc |-> 0],
     file |-> FALSE, running |-> FALSE, expired |-> FALSE,
     error |-> <<>>, result |-> NoText, unlink_failed |-> FALSE]

\* No call has been made on the tracker.
NoCall == [n |-> 0, op |-> "", id |-> 0, before |-> {}, result |-> FALSE,
           adds |-> 0, firsts |-> 0]

Init ==
    /\ executed_tasks = {}
    /\ active_executions = {}
    /\ task = [i \in Ids |-> "none"]
    /\ logs = [i \in Ids |-> NoText]
    /\ computer_status \in StatusValues
    /\ records = [i \in Ids |-> [logs |-> <<>>, completed |-> FALSE]]
    /\ main = "initialize"
    /\ unsubscribe = FALSE
    /\ subscribed = FALSE
    /\ events = 0
    /\ dispatches = [i \in Ids |-> 0]
    /\ completed_seen = {}
    /\ writes = [i \in Ids |-> <<>>]
    /\ batch = NoBatch
    /\ offline_attempts = 0
    /\ unsubscribe_attempts = 0
    /\ offline_written = FALSE
    /\ status_write_failed = FALSE
    /\ last = Quiet
    /\ temp_files = [f \in FileNames |-> 0]
    /\ invocation = NoInvocation
    /\ call = NoCall

\* handle_execution without the test of the completed flag.
handle_execution_ignores_completed(execution_id, completed) ==
    /\ UNCHANGED <<temp_files, partVars>>
    /\ subscribed
    /\ events < MaxEvents
    /\ events' = events + 1
    /\ completed_seen' = IF completed THEN completed_seen \cup {execution_id}
                         ELSE completed_seen
    /\ last' = Quiet
    /\ IF is_executed(executed_tasks, execution_id)
       THEN UNCHANGED <<executed_tasks, task, dispatches>>
       ELSE /\ executed_tasks' = mark_executed(executed_tasks, execution_id)
            /\ task' = [task EXCEPT ![execution_id] = "scheduled"]
            /\ dispatches' = [dispatches EXCEPT ![execution_id] = @ + 1]
    /\ UNCHANGED <<active_executions, logs, computer_status, records, writes,
                   batch, mainVars, status_write_failed>>

\* handle_execution that runs the start of the dispatch itself instead of
\* leaving it to the created task.
handle_execution_starts_dispatch(execution_id, completed) ==
    /\ UNCHANGED <<temp_files, partVars>>
    /\ subscribed
    /\ events < MaxEvents
    /\ events' = events + 1
    /\ completed_seen' = IF completed THEN completed_seen \cup {execution_id}
                         ELSE completed_seen
    /\ last' = Quiet
    /\ IF is_executed(executed_tasks, execution_id)
       THEN UNCHANGED <<executed_tasks, active_executions, task, dispatches>>
       ELSE /\ executed_tasks' = mark_executed(executed_tasks, execution_id)
            /\ IF completed
               THEN UNCHANGED <<active_executions, task, dispatches>>
               ELSE /\ task' = [task EXCEPT ![execution_id] = "scheduled"]
                    /\ active_executions' =
                          add_active(active_executions, execution_id).active
                    /\ dispatches' = [dispatches EXCEPT ![execution_id] = @ + 1]
    /\ UNCHANGED <<logs, computer_status, records, writes, batch, mainVars,
                   status_write_failed>>

(***************************************************************************)
(* AgentService.handle_execution: one event of the subscription.  It has   *)
(* no await, so the whole handler is one step.                             *)
(***************************************************************************)
handle_execution(execution_id, completed) ==
    /\ UNCHANGED <<temp_files, partVars>>
    /\ subscribed
    /\ events < MaxEvents
    /\ events' = events + 1
    /\ completed_seen' = IF completed THEN completed_seen \cup {execution_id}
                         ELSE completed_seen
    /\ last' = Quiet
    /\ IF is_executed(executed_tasks, execution_id)
       THEN UNCHANGED <<executed_tasks, task, dispatches>>
       ELSE /\ executed_tasks' = mark_executed(executed_tasks, execution_id)
            /\ IF completed
               THEN UNCHANGED <<task, dispatches>>
               ELSE /\ task' = [task EXCEPT ![execution_id] = "scheduled"]
                    /\ dispatches' = [dispatches EXCEPT ![execution_id] = @ + 1]
    /\ UNCHANGED <<active_executions, logs, computer_status, records, writes,
                   batch, mainVars, status_write_failed>>

\* update_computer_status without its try/except: the exception of the write
\* ends the calling task.
update_computer_status_uncaught(execution_id, status, ok, next) ==
    /\ computer_status' = IF ok THEN status ELSE computer_status
    /\ task' = [task EXCEPT ![execution_id] = IF ok THEN next ELSE "failed"]
    /\ status_write_failed' = (status_write_failed \/ ~ok)
    /\ last' = IF ok THEN Quiet
               ELSE [line |-> "Failed to update computer status",
                     id |-> execution_id, status |-> status]

(***************************************************************************)
(* AgentService.update_computer_status, from the resumption of the awaited *)
(* update_computer to the return: the write has taken effect (ok) or has   *)
(* raised, which is caught and printed.  The caller goes on to next.       *)
(***************************************************************************)
update_computer_status(execution_id, status, ok, next) ==
    /\ computer_status' = IF ok THEN status ELSE computer_status
    /\ task' = [task EXCEPT ![execution_id] = next]
    /\ status_write_failed' = (status_write_failed \/ ~ok)
    /\ last' = IF ok THEN Quiet
               ELSE [line |-> "Failed to update computer status",
                     id |-> execution_id, status |-> status]

\* The payloads of the two update_execution calls of process_execution.
StartedWrite == [logs |-> StartedText, completed |-> FALSE]
FinalWrite(text) == [logs |-> text, completed |-> TRUE]

(***************************************************************************)
(* AgentService.process_execution, one action per stretch between awaits.  *)
(***************************************************************************)
\* The start of the task with the "started" write left out when the
\* dispatch is not the first: it goes straight to the runner.
ProcessBegin_skips_started(execution_id) ==
    /\ UNCHANGED <<temp_files, partVars>>
    /\ task[execution_id] = "scheduled"
    /\ LET r == add_active(active_executions, execution_id)
           opens == active_executions = {}
           b == IF opens THEN [NoBatch EXCEPT !.opened_by = execution_id]
                ELSE batch
       IN  /\ active_executions' = r.active
           /\ batch' = [b EXCEPT !.adds = @ + 1,
                                 !.running = IF r.result THEN @ + 1 ELSE @,
                                 !.running_by = IF r.result THEN execution_id ELSE @]
           /\ IF r.result
              THEN /\ task' = [task EXCEPT ![execution_id] = "status_running"]
                   /\ UNCHANGED writes
              ELSE /\ task' = [task EXCEPT ![execution_id] = "execute_code"]
                   /\ UNCHANGED writes
    /\ last' = Quiet
    /\ UNCHANGED <<executed_tasks, logs, computer_status, records, mainVars,
                   handlerHist>>

\* The task starts: add_active, then the Running write when it was first,
\* otherwise straight to the "started" write.
ProcessBegin(execution_id) ==
    /\ UNCHANGED <<temp_files, partVars>>
    /\ task[execution_id] = "scheduled"
    /\ LET r == add_active(active_executions, execution_id)
           opens == active_executions = {}
           b == IF opens THEN [NoBatch EXCEPT !.opened_by = execution_id]
                ELSE batch
       IN  /\ active_executions' = r.active
           /\ batch' = [b EXCEPT !.adds = @ + 1,
                                 !.running = IF r.result THEN @ + 1 ELSE @,
                                 !.running_by = IF r.result THEN execution_id ELSE @]
           /\ IF r.result
              THEN /\ task' = [task EXCEPT ![execution_id] = "status_running"]
                   /\ UNCHANGED writes
              ELSE /\ task' = [task EXCEPT ![execution_id] = "started_write"]
                   /\ writes' = [writes EXCEPT ![execution_id] = Append(@, StartedWrite)]
    /\ last' = Quiet
    /\ UNCHANGED <<executed_tasks, logs, computer_status, records, mainVars,
                   handlerHist>>

\* The Running write returns; the "started" write is issued.
ProcessAfterRunning(execution_id) ==
    /\ UNCHANGED <<temp_files, partVars>>
    /\ task[execution_id] = "status_running"
    /\ \E ok \in BOOLEAN :
          update_computer_status(execution_id, Running, ok, "started_write")
    /\ writes' = [writes EXCEPT ![execution_id] = Append(@, StartedWrite)]
    /\ UNCHANGED <<trackerVars, logs, records, batch, mainVars, events,
                   dispatches, completed_seen>>

\* The "started" write returns; an exception of update_execution is not
\* caught and ends the task.  Otherwise the runner is started.
ProcessAfterStarted(execution_id) ==
    /\ UNCHANGED partVars
    /\ task[execution_id] = "started_write"
    /\ \E ok \in BOOLEAN :
          IF ok
          THEN /\ records' = [records EXCEPT ![execution_id].logs = StartedText]
               /\ task' = [task EXCEPT ![execution_id] = "execute_code"]
               /\ temp_files' = [temp_files EXCEPT
                                    ![temp_filename(execution_id)] = @ + 1]
          ELSE /\ task' = [task EXCEPT ![execution_id] = "failed"]
               /\ UNCHANGED <<records, temp_files>>
    /\ last' = Quiet
    /\ UNCHANGED <<trackerVars, logs, computer_status, writes, batch, mainVars,
                   handlerHist>>

\* execute_code returns its text; the final write is issued.
ProcessAfterExecute(execution_id) ==
    /\ UNCHANGED partVars
    /\ task[execution_id] = "execute_code"
    /\ \E child \in Children :
          /\ Finishes(child) \/ None # None
          /\ logs' = [logs EXCEPT ![execution_id] = execute_code(child, None)]
    /\ task' = [task EXCEPT ![execution_id] = "final_write"]
    /\ temp_files' = [temp_files EXCEPT ![temp_filename(execution_id)] = @ - 1]
    /\ writes' = [writes EXCEPT ![execution_id] =
                     Append(@, FinalWrite(logs'[execution_id]))]
    /\ last' = Quiet
    /\ UNCHANGED <<trackerVars, computer_status, records, batch, mainVars,
                   handlerHist>>

\* The final write returns; an exception ends the task.  Otherwise
\* remove_active, then the Idle write when it was last.
ProcessAfterFinal(execution_id) ==
    /\ UNCHANGED <<temp_files, partVars>>
    /\ task[execution_id] = "final_write"
    /\ \E ok \in BOOLEAN :
          IF ok
          THEN LET r == remove_active(active_executions, execution_id)
               IN  /\ records' = [records EXCEPT ![execution_id] =
                                     FinalWrite(logs[execution_id])]
                   /\ active_executions' = r.active
                   /\ task' = [task EXCEPT ![execution_id] =
                                  IF r.result THEN "status_idle" ELSE "done"]
                   /\ batch' = [batch EXCEPT
                                  !.closed_by = IF r.active = {}
                                                THEN execution_id ELSE @,
                                  !.idle = IF r.result THEN @ + 1 ELSE @,
                                  !.idle_by = IF r.result THEN execution_id ELSE @]
          ELSE /\ task' = [task EXCEPT ![execution_id] = "failed"]
               /\ UNCHANGED <<records, active_executions, batch>>
    /\ last' = Quiet
    /\ UNCHANGED <<executed_tasks, logs, computer_status, writes, mainVars,
                   handlerHist>>

\* The Idle write returns; the task ends.
ProcessAfterIdle(execution_id) ==
    /\ UNCHANGED <<temp_files, partVars>>
    /\ task[execution_id] = "status_idle"
    /\ \E ok \in BOOLEAN :
          update_computer_status(execution_id, Idle, ok, "done")
    /\ UNCHANGED <<trackerVars, logs, records, writes, batch, mainVars,
                   events, dispatches, completed_seen>>

process_execution(execution_id) ==
    \/ ProcessBegin(execution_id)
    \/ ProcessAfterRunning(execution_id)
    \/ ProcessAfterStarted(execution_id)
    \/ ProcessAfterExecute(execution_id)
    \/ ProcessAfterFinal(execution_id)
    \/ ProcessAfterIdle(execution_id)

agentVars == <<trackerVars, task, logs, records, writes, batch, handlerHist>>

(***************************************************************************)
(* main: initialize, then run with its shutdown sequence, then the end of  *)
(* asyncio.run.                                                            *)
(***************************************************************************)
\* get_computer and the update that sets Idle; an exception ends main
\* before run is entered.
initialize ==
    /\ UNCHANGED <<temp_files, partVars>>
    /\ main = "initialize"
    /\ \E ok \in BOOLEAN :
          IF ok
          THEN computer_status' = Idle /\ main' = "subscribe"
          ELSE main' = "init_failed" /\ UNCHANGED computer_status
    /\ last' = Quiet
    /\ UNCHANGED <<agentVars, unsubscribe, subscribed, offline_attempts,
                   unsubscribe_attempts, offline_written>>

\* run up to the loop: the subscription succeeds, or raises, and then the
\* finally block issues the Offline write with no unsubscribe in locals().
RunSubscribe ==
    /\ UNCHANGED <<temp_files, partVars>>
    /\ main = "subscribe"
    /\ \E ok \in BOOLEAN :
          IF ok
          THEN /\ main' = "loop"
               /\ unsubscribe' = TRUE
               /\ subscribed' = TRUE
               /\ UNCHANGED offline_attempts
          ELSE /\ main' = "offline_write"
               /\ offline_attempts' = offline_attempts + 1
               /\ UNCHANGED <<unsubscribe, subscribed>>
    /\ last' = Quiet
    /\ UNCHANGED <<agentVars, computer_status, unsubscribe_attempts,
                   offline_written>>

\* The sleep of the loop is interrupted (the main task is cancelled); the
\* finally block issues the Offline write.
RunInterrupted ==
    /\ UNCHANGED <<temp_files, partVars>>
    /\ main = "loop"
    /\ main' = "offline_write"
    /\ offline_attempts' = offline_attempts + 1
    /\ last' = Quiet
    /\ UNCHANGED <<agentVars, computer_status, unsubscribe, subscribed,
                   unsubscribe_attempts, offline_written>>

\* The Offline write returns.  It is outside any try: when it raises, the
\* rest of the finally block is skipped.
RunAfterOffline ==
    /\ UNCHANGED <<temp_files, partVars>>
    /\ main = "offline_write"
    /\ \E ok \in BOOLEAN :
          IF ok
          THEN /\ computer_status' = Offline
               /\ offline_written' = TRUE
               /\ IF unsubscribe
                  THEN /\ main' = "unsubscribe_call"
                       /\ unsubscribe_attempts' = unsubscribe_attempts + 1
                  ELSE /\ main' = "ended"
                       /\ UNCHANGED unsubscribe_attempts
          ELSE /\ main' = "ended"
               /\ UNCHANGED <<computer_status, offline_written,
                              unsubscribe_attempts>>
    /\ last' = Quiet
    /\ UNCHANGED <<agentVars, unsubscribe, subscribed, offline_attempts>>

\* unsubscribe() returns or raises (caught); run ends.
RunAfterUnsubscribe ==
    /\ UNCHANGED <<temp_files, partVars>>
    /\ main = "unsubscribe_call"
    /\ \E ok \in BOOLEAN : subscribed' = IF ok THEN FALSE ELSE subscribed
    /\ main' = "ended"
    /\ last' = Quiet
    /\ UNCHANGED <<agentVars, computer_status, unsubscribe, offline_attempts,
                   unsubscribe_attempts, offline_written>>

run == RunSubscribe \/ RunInterrupted \/ RunAfterOffline \/ RunAfterUnsubscribe

\* asyncio.run(main()) once main is over: the tasks still pending are
\* cancelled and the loop is closed.
AsyncioRunEnd ==
    /\ UNCHANGED <<temp_files, partVars>>
    /\ main \in {"ended", "init_failed"}
    /\ main' = "closed"
    /\ task' = [i \in Ids |-> IF task[i] \in Live THEN "cancelled" ELSE task[i]]
    /\ subscribed' = FALSE
    /\ last' = Quiet
    /\ UNCHANGED <<trackerVars, logs, computer_status, records, unsubscribe,
                   handlerHist, writes, batch, offline_attempts,
                   unsubscribe_attempts, offline_written>>

Next ==
    \/ \E execution_id \in Ids, completed \in BOOLEAN :
          handle_execution(execution_id, completed)
    \/ \E execution_id \in Ids : process_execution(execution_id)
    \/ initialize
    \/ run
    \/ AsyncioRunEnd

Spec == Init /\ [][Next]_vars

(***************************************************************************)
(* CodeExecutor._run_in_process on its own, one statement group per step.  *)
(* In invocation, file says that the temporary file is on disk, running    *)
(* that the child process is running, expired that communicate raised      *)
(* TimeoutExpired, error is the message of a caught exception, and         *)
(* unlink_failed says that os.unlink raised.                               *)
(***************************************************************************)
RunnerChildren ==
    [kind : {"exit", "hang"}, out : {<<>>, <<"hello\n">>},
     err : {<<>>, <<"boom\n">>}, rc : {0, 1}]

Timeouts == {None, Some(10)}

runnerFrame == <<trackerVars, task, logs, computer_status, records, mainVars,
                 handlerHist, writes, batch, last, temp_files, call>>

\* The call: temp_filename is computed, nothing is on disk yet.
RunnerCall(execution_id, child, timeout) ==
    /\ invocation.pc = "idle"
    /\ invocation' = [NoInvocation EXCEPT !.pc = "write",
                                          !.execution_id = execution_id,
                                          !.child = child,
                                          !.timeout = timeout]
    /\ UNCHANGED runnerFrame

\* open(temp_filename, 'w') and write(code): open may raise before the
\* file is created, write may raise after it.
RunnerWrite ==
    /\ invocation.pc = "write"
    /\ \/ invocation' = [invocation EXCEPT !.file = TRUE, !.pc = "popen"]
       \/ invocation' = [invocation EXCEPT !.error = <<"open failed">>,
                                           !.pc = "except"]
       \/ invocation' = [invocation EXCEPT !.file = TRUE,
                                           !.error = <<"write failed">>,
                                           !.pc = "except"]
    /\ UNCHANGED runnerFrame

\* subprocess.Popen starts the child or raises.
RunnerPopen ==
    /\ invocation.pc = "popen"
    /\ \/ invocation' = [invocation EXCEPT !.running = TRUE,
                                           !.pc = "communicate"]
       \/ invocation' = [invocation EXCEPT !.error = <<"spawn failed">>,
                                           !.pc = "except"]
    /\ UNCHANGED runnerFrame

\* process.communicate(timeout=timeout): the child finishes, or the timeout
\* expires first, or the wait raises.  With no timeout and a child that
\* does not finish the call does not return.
RunnerCommunicate ==
    /\ invocation.pc = "communicate"
    /\ \/ /\ Finishes(invocation.child)
          /\ invocation' = [invocation EXCEPT !.running = FALSE,
                                              !.pc = "decode"]
       \/ /\ ~Finishes(invocation.child)
          /\ invocation.timeout # None
          /\ invocation' = [invocation EXCEPT !.expired = TRUE,
                                              !.pc = "timeout"]
       \/ invocation' = [invocation EXCEPT !.error = <<"wait failed">>,
                                           !.pc = "except"]
    /\ UNCHANGED runnerFrame

\* The two decode calls and the composition of output, or a decode error.
RunnerDecode ==
    /\ invocation.pc = "decode"
    /\ \/ invocation' =
             [invocation EXCEPT
                 !.result = _run_in_process(invocation.child, invocation.timeout),
                 !.pc = "finally"]
       \/ invocation' = [invocation EXCEPT !.error = <<"decode failed">>,
                                           !.pc = "except"]
    /\ UNCHANGED runnerFrame

\* The handler of TimeoutExpired without process.kill().
RunnerTimeout_no_kill ==
    /\ invocation.pc = "timeout"
    /\ invocation' =
          [invocation EXCEPT
              !.result = _run_in_process(invocation.child, invocation.timeout),
              !.pc = "finally"]
    /\ UNCHANGED runnerFrame

\* except subprocess.TimeoutExpired: process.kill() and the timeout message.
RunnerTimeout ==
    /\ invocation.pc = "timeout"
    /\ invocation' =
          [invocation EXCEPT
              !.running = FALSE,
              !.result = _run_in_process(invocation.child, invocation.timeout),
              !.pc = "finally"]
    /\ UNCHANGED runnerFrame

\* The function without its except Exception clause: the exception leaves
\* the function.
RunnerExcept_propagates ==
    /\ invocation.pc = "except"
    /\ invocation' = [invocation EXCEPT !.pc = "raised"]
    /\ UNCHANGED runnerFrame

\* except Exception: the message of the exception becomes the result.
RunnerExcept ==
    /\ invocation.pc = "except"
    /\ invocation' =
          [invocation EXCEPT
              !.result = _run_in_process(
                            [invocation.child EXCEPT !.kind = "raise",
                                                     !.err = invocation.error],
                            invocation.timeout),
              !.pc = "finally"]
    /\ UNCHANGED runnerFrame

\* The finally block without the os.unlink call.
RunnerFinally_keeps_file ==
    /\ invocation.pc = "finally"
    /\ invocation' = [invocation EXCEPT !.pc = "returned"]
    /\ UNCHANGED runnerFrame

\* finally: the file is unlinked when it exists; an exception of os.unlink
\* is printed and the file stays.  Then the function returns.
RunnerFinally ==
    /\ invocation.pc = "finally"
    /\ IF invocation.file
       THEN \/ invocation' = [invocation EXCEPT !.file = FALSE,
                                                !.pc = "returned"]
            \/ invocation' = [invocation EXCEPT !.unlink_failed = TRUE,
                                                !.pc = "returned"]
       ELSE invocation' = [invocation EXCEPT !.pc = "returned"]
    /\ UNCHANGED runnerFrame

RunnerNext ==
    \/ \E execution_id \in Ids, child \in RunnerChildren, timeout \in Timeouts :
          RunnerCall(execution_id, child, timeout)
    \/ RunnerWrite
    \/ RunnerPopen
    \/ RunnerCommunicate
    \/ RunnerDecode
    \/ RunnerTimeout
    \/ RunnerExcept
    \/ RunnerFinally

RunnerSpec == Init /\ [][RunnerNext]_vars

(***************************************************************************)
(* The ExecutionTracker on its own: any sequence of calls, with ids that   *)
(* are in the sets or not.  call records the last call: its number, the    *)
(* method, the id, the set before it and the value returned; adds and      *)
(* firsts count the add_active calls, and those that returned true, since  *)
(* the add_active that last found the active set empty.                    *)
(***************************************************************************)
ledgerFrame == <<task, logs, computer_status, records, mainVars, handlerHist,
                 writes, batch, last, temp_files, invocation>>

LedgerMark(execution_id) ==
    /\ call.n < MaxCalls
    /\ executed_tasks' = mark_executed(executed_tasks, execution_id)
    /\ call' = [call EXCEPT !.n = @ + 1, !.op = "mark_executed",
                            !.id = execution_id, !.before = executed_tasks,
                            !.result = is_executed(executed_tasks, execution_id)]
    /\ UNCHANGED <<active_executions, ledgerFrame>>

LedgerAdd(execution_id) ==
    /\ call.n < MaxCalls
    /\ LET r == add_active(active_executions, execution_id)
           opens == active_executions = {}
       IN  /\ active_executions' = r.active
           /\ call' = [n |-> call.n + 1, op |-> "add_active",
                       id |-> execution_id, before |-> active_executions,
                       result |-> r.result,
                       adds |-> IF opens THEN 1 ELSE call.adds + 1,
                       firsts |-> (IF opens THEN 0 ELSE call.firsts)
                                  + (IF r.result THEN 1 ELSE 0)]
    /\ UNCHANGED <<executed_tasks, ledgerFrame>>

LedgerRemove(execution_id) ==
    /\ call.n < MaxCalls
    /\ LET r == remove_active(active_executions, execution_id)
       IN  /\ active_executions' = r.active
           /\ call' = [call EXCEPT !.n = @ + 1, !.op = "remove_active",
                                   !.id = execution_id,
                                   !.before = active_executions,
                                   !.result = r.result]
    /\ UNCHANGED <<executed_tasks, ledgerFrame>>

LedgerNext ==
    \E execution_id \in Ids :
       \/ LedgerMark(execution_id)
       \/ LedgerAdd(execution_id)
       \/ LedgerRemove(execution_id)

LedgerSpec == Init /\ [][LedgerNext]_vars

(***************************************************************************)
(* Properties                                                              *)
(***************************************************************************)

\* C1: for every execution id and every sequence of events delivered to
\* handle_execution, duplicates included, process_execution is started at
\* most once for that id.
AtMostOneDispatchPerId == \A i \in Ids : dispatches[i] <= 1

\* Two events were handled, both for the same id, and it was dispatched.
DuplicateEventAbsorbed ==
    \E i \in Ids : executed_tasks = {i} /\ events >= 2 /\ dispatches[i] = 1

\* C2: in a batch of dispatches with overlapping active windows exactly one
\* Running write is issued, by the dispatch that made active non-empty, and
\* exactly one Idle write, by the dispatch that emptied active.
OneRunningOneIdlePerBatch ==
    /\ active_executions # {} =>
          /\ batch.running = 1 /\ batch.running_by = batch.opened_by
          /\ batch.idle = 0
    /\ (active_executions = {} /\ batch.adds > 0) =>
          /\ batch.running = 1 /\ batch.running_by = batch.opened_by
          /\ batch.idle = 1 /\ batch.idle_by = batch.closed_by

\* A batch of two overlapping dispatches has run to its end.
OverlappingBatchFinished ==
    active_executions = {} /\ batch.adds >= 2 /\ batch.idle = 1

\* C10: the active set is a subset of the executed set in every state.
ActiveSubsetOfExecuted == active_executions \subseteq executed_tasks

\* Some execution is active.
SomeExecutionActive == active_executions # {}

\* C7: a status write that raises is caught inside the dispatch and does
\* not abort it: after a failed Running write the dispatch goes on to issue
\* the "started" write, and after a failed Idle write it ends normally with
\* its id removed from the active set.
StatusWriteFailureDoesNotAbort ==
    \A i \in Ids :
       (last.line = "Failed to update computer status" /\ last.id = i) =>
          /\ task[i] # "failed"
          /\ last.status = Running =>
                /\ task[i] = "started_write"
                /\ writes[i] = <<StartedWrite>>
                /\ i \in active_executions
          /\ last.status = Idle =>
                /\ task[i] = "done"
                /\ i \notin active_executions
                /\ writes[i] = <<StartedWrite, FinalWrite(logs[i])>>

\* A dispatch whose Running write raised has gone through the whole pipeline
\* and its Idle write has raised as well.
BothStatusWritesFailed ==
    \E i \in Ids :
       /\ last = [line |-> "Failed to update computer status",
                  id |-> i, status |-> Idle]
       /\ computer_status = Idle
       /\ records[i].completed
       /\ batch.running_by = i

\* C8: once handle_execution has handled an event for an id whose completed
\* flag is true, no dispatch for that id is started, neither by that event
\* nor by any later one.
NoDispatchOnceCompletedSeen ==
    [][\A i \in Ids :
          i \in completed_seen' => dispatches'[i] = dispatches[i]]_vars

\* The first event for an id was a completed one, a second event for the id
\* followed, and the id was never dispatched.
CompletedFirstNeverDispatched ==
    \E i \in Ids :
       /\ executed_tasks = {i} /\ i \in completed_seen
       /\ events >= 2 /\ dispatches[i] = 0

\* A status write of some dispatch is pending.
StatusWriteInFlight ==
    \E i \in Ids : task[i] \in {"status_running", "status_idle"}

\* C3: after initialization and before shutdown, in every state with no
\* status write in flight the backend status is Running when the active set
\* is non-empty and Idle when it is empty.  Stated for the runs in which no
\* status write has raised, so that a violation is due to the interleaving
\* of the dispatches alone.
StatusReflectsActive ==
    (/\ main \in {"subscribe", "loop"}
     /\ ~StatusWriteInFlight
     /\ ~status_write_failed) =>
       computer_status = IF active_executions # {} THEN Running ELSE Idle

\* C4: when run ends, the Offline write was attempted exactly once and the
\* unsubscribe exactly once, also when one of the two raised.  Stated for
\* the runs whose subscription succeeded, where there is a handle to call.
ShutdownAttemptsBoth ==
    (main = "ended" /\ unsubscribe) =>
       offline_attempts = 1 /\ unsubscribe_attempts = 1

\* C5: every dispatched execution gets its final write issued, with
\* completed=true and the text the runner returned.  As a statement about
\* results: a dispatch that has come to its end other than by cancellation
\* has issued that write.
EndedDispatchIssuedFinalWrite ==
    \A i \in Ids :
       task[i] \in {"done", "failed"} =>
          /\ Len(writes[i]) = 2
          /\ writes[i][2] = FinalWrite(logs[i])

\* C6: a failing write of an execution record is not propagated out of the
\* dispatch, which still removes its id from the active set: no dispatch
\* ends by an exception, and none ends with its id still active.
ExecutionWriteFailureNotPropagated ==
    \A i \in Ids :
       /\ task[i] # "failed"
       /\ task[i] \in {"done", "failed"} => i \notin active_executions

\* The status changes the agent is meant to make.
StatusTransitions ==
    {<<Offline, Idle>>, <<Idle, Running>>, <<Running, Idle>>}
       \cup {<<s, Offline>> : s \in StatusValues}

\* C9: the status follows Offline -> Idle -> Running <-> Idle and any state
\* -> Offline only, and once the shutdown sequence has written Offline the
\* status stays Offline and no dispatch issues a status write.
OfflineIsTerminal ==
    [][/\ computer_status' # computer_status =>
             <<computer_status, computer_status'>> \in StatusTransitions
       /\ offline_written =>
             /\ computer_status' = Offline
             /\ \A i \in Ids :
                   task'[i] \in {"status_running", "status_idle"} =>
                      task'[i] = task[i]]_vars

\* C11: add_active returns true iff the active set was empty immediately
\* before the call; so from one moment at which the set is empty to the
\* next, exactly one add_active call returns true if any add_active is made.
AddActiveFirstInExact ==
    /\ call.op = "add_active" => (call.result <=> call.before = {})
    /\ call.adds > 0 => call.firsts = 1

\* Two add_active calls were made while the set was non-empty, and the set
\* has been emptied again.
TwoAddsThenEmptied ==
    call.op = "remove_active" /\ call.adds >= 2 /\ active_executions = {}

\* C12, as stated: remove_active returns true iff the active set was
\* non-empty immediately before the call and is empty immediately after it,
\* for every state of the ledger and every id, present or absent.
RemoveActiveTrueIffItEmpties ==
    call.op = "remove_active" =>
       (call.result <=> (call.before # {} /\ active_executions = {}))

\* C12, amended: remove_active removes the id if it is present and returns
\* true iff the active set is empty immediately after the call.
RemoveActiveTrueIffEmptyAfter ==
    call.op = "remove_active" =>
       /\ active_executions = call.before \ {call.id}
       /\ call.result <=> active_executions = {}

\* remove_active was called on an empty set and returned true.
RemoveOnEmptyReturnedTrue ==
    call.op = "remove_active" /\ call.before = {} /\ call.result

\* C13, as stated: after any invocation of the runner has returned, its
\* temporary file no longer exists on disk, and a failure of the deletion
\* is not raised to the caller.
NoTempFileAfterReturn ==
    /\ invocation.pc # "raised"
    /\ invocation.pc = "returned" => ~invocation.file

\* C13, amended: after any invocation of the runner has returned, its
\* temporary file no longer exists on disk unless os.unlink raised, and a
\* failure of the deletion is not raised to the caller.
NoTempFileAfterReturnUnlessUnlinkFailed ==
    /\ invocation.pc # "raised"
    /\ invocation.pc = "returned" =>
          (invocation.file <=> invocation.unlink_failed)

\* The child was run to its end, the deletion of the file failed, and the
\* runner returned its text.
ReturnedAfterUnlinkFailed ==
    /\ invocation.pc = "returned"
    /\ invocation.unlink_failed /\ invocation.file
    /\ invocation.error = <<>> /\ ~invocation.expired

\* C14: the runner never raises to its caller: at every failure point it
\* returns a text, and after an exception the text is the error message.
RunnerAlwaysReturnsText ==
    /\ invocation.pc # "raised"
    /\ invocation.pc = "returned" =>
          /\ invocation.result # NoText
          /\ invocation.error # <<>> =>
                invocation.result = <<"Error executing code: ">> \o invocation.error

\* An exception was raised once the child was running, and the runner
\* returned.
ReturnedAfterException ==
    /\ invocation.pc = "returned"
    /\ invocation.error = <<"decode failed">>

\* The pieces of a text.
Pieces(text) == {text[k] : k \in 1..Len(text)}

\* C15: when the timeout expires before the child has finished, the runner
\* kills the child and returns exactly the timeout message with the
\* duration, with none of the child's output; the child is not running
\* once the runner has returned.
TimeoutKillsAndReportsOnly ==
    (invocation.pc = "returned" /\ invocation.expired) =>
       /\ invocation.result =
             <<"Execution timed out after ",
               ToString(invocation.timeout.value), " seconds.">>
       /\ Pieces(invocation.result) \cap
             (Pieces(invocation.child.out) \cup Pieces(invocation.child.err)) = {}
       /\ ~invocation.running

\* The timeout expired on a child that had written to stdout and stderr,
\* and the runner returned.
ReturnedAfterTimeout ==
    /\ invocation.pc = "returned" /\ invocation.expired
    /\ invocation.child.out # <<>> /\ invocation.child.err # <<>>

\* The invocation returned from a child that finished, with no exception.
ReturnedNormally ==
    /\ invocation.pc = "returned"
    /\ invocation.error = <<>> /\ ~invocation.expired

\* C16: for a child that finishes without timeout the result is stdout,
\* then an "Errors:" section with stderr iff stderr is non-empty, set off
\* by a separator iff stdout is non-empty, then the exit code note iff the
\* exit code is not 0; with empty stderr and exit code 0 it is stdout.
ResultComposition ==
    ReturnedNormally =>
       LET r == invocation.result
           c == invocation.child
           sep == IF c.out # <<>> /\ c.err # <<>> THEN <<"\n\n">> ELSE <<>>
           errors == IF c.err # <<>> THEN <<"Errors:\n">> \o c.err ELSE <<>>
           head == Len(c.out) + Len(sep) + Len(errors)
       IN  /\ SubSeq(r, 1, Len(c.out)) = c.out
           /\ SubSeq(r, Len(c.out) + 1, Len(c.out) + Len(sep)) = sep
           /\ SubSeq(r, Len(c.out) + Len(sep) + 1, head) = errors
           /\ "Errors:\n" \in Pieces(r) <=> c.err # <<>>
           /\ IF c.rc # 0
              THEN SubSeq(r, head + 1, Len(r)) =
                      <<"\n\nProcess exited with code ", ToString(c.rc)>>
              ELSE Len(r) = head
           /\ (c.err = <<>> /\ c.rc = 0) => r = c.out

\* A child with empty stdout, some stderr and exit code 1 was run: the
\* result starts with the "Errors:" section.
StderrOnlyChildReturned ==
    /\ ReturnedNormally
    /\ invocation.child.out = <<>> /\ invocation.child.err # <<>>
    /\ invocation.child.rc = 1
    /\ invocation.result[1] = "Errors:\n"

\* C17: a dispatch that is in flight when the shutdown sequence runs is not
\* cancelled: also after run and main have returned, a dispatch whose
\* runner is in progress goes on to issue its final write.
RunningDispatchReachesFinalWrite ==
    [][\A i \in Ids :
          task[i] = "execute_code" =>
             task'[i] \in {"execute_code", "final_write"}]_vars

\* C18: one call of handle_execution changes at most the executed set and
\* the set of scheduled dispatch tasks; it leaves the active set, the
\* computer status and the execution records unchanged, advances no
\* dispatch, and changes nothing for an id that is already marked.
HandleExecutionFrame ==
    [][events' # events =>
          /\ UNCHANGED <<active_executions, computer_status, records, writes,
                         logs, batch, temp_files>>
          /\ executed_tasks \subseteq executed_tasks'
          /\ \A i \in Ids :
                task'[i] # task[i] =>
                   /\ task[i] = "none" /\ task'[i] = "scheduled"
                   /\ i \notin executed_tasks
          /\ executed_tasks' = executed_tasks =>
                UNCHANGED <<task, dispatches>>]_vars

\* Two events for the same id were handled: the first scheduled its
\* dispatch, which has not started, and the second changed nothing.
SecondEventLeftTaskScheduled ==
    \E i \in Ids :
       /\ executed_tasks = {i} /\ events = 2
       /\ task[i] = "scheduled" /\ active_executions = {}

\* C19: for every id the "started" write is issued, and has returned,
\* before the final write with completed=true is issued; no completed=true
\* write is issued for an id whose "started" write has not been made.
StartedWriteBeforeFinalWrite ==
    \A i \in Ids :
       \A k \in 1..Len(writes[i]) :
          writes[i][k].completed =>
             /\ k = 2
             /\ writes[i][1] = StartedWrite
             /\ task[i] \notin {"scheduled", "status_running", "started_write"}

\* The dispatches of all ids have run to their end, each with its two
\* writes.
AllDispatchesWroteTwice ==
    \A i \in Ids : task[i] = "done" /\ Len(writes[i]) = 2

\* C20: no two invocations of the runner that are in progress at the same
\* time use the same temporary file.
TempFilesNotShared == \A f \in FileNames : temp_files[f] <= 1

\* The runner is in progress for two ids at once, each with its own file.
TwoInvocationsInProgress ==
    \E i, j \in Ids :
       /\ i # j
       /\ task[i] = "execute_code" /\ task[j] = "execute_code"
       /\ temp_files[temp_filename(i)] = 1
       /\ temp_files[temp_filename(j)] = 1

====
